---- MODULE Spec2Model ----
(***************************************************************************)
(* messages-service: the processing orchestrator (internal/messages) over  *)
(* the Postgres repository (internal/storage) and a Kafka producer.        *)
(*                                                                         *)
(* A request is a call of Service.ProcessIncomingMessage or of             *)
(* Service.ValidateProcessedMessage.  Each call runs its local code up to  *)
(* the next store or broker operation in one step; store statements and    *)
(* sends are single steps, so calls that are in flight together interleave *)
(* exactly at those operations.  Spec lets up to MaxInFlight calls run     *)
(* together; SpecSerial runs one call at a time and keeps, for the call    *)
(* being handled, the store and topics it started from.                    *)
(***************************************************************************)
EXTENDS Integers, Sequences, FiniteSets, Bags, TLC

VARIABLES
    store,        \* table mails: id -> row
    topics,       \* Kafka: topic name -> bag of published messages
    maxAttempts,  \* Service.maxAttempts
    inflight,     \* bag of calls that are between two I/O operations
    pre,          \* SpecSerial: store and topics when the current call began
    resp,         \* SpecSerial: the last call that returned, with its error
    run,          \* SpecSerial: id -> invalid callbacks handled since admission
    calls         \* calls begun so far

vars == <<store, topics, maxAttempts, inflight, pre, resp, run, calls>>

-----------------------------------------------------------------------------
(* Bounds of the model *)

MaxInFlight == 3   \* calls in flight together (Spec)
MaxCalls == 4      \* calls begun in one behaviour
MaxLimit == 3      \* largest configured maxAttempts

-----------------------------------------------------------------------------
(* Values *)

Ids == {"m1"}
Clock == {1}
Limits == (-1)..MaxLimit

ZeroTime == 0
NULL == "<NULL>"
NoErr == "nil"
DBError == "db error"
BrokerError == "broker error"

InputTopic == "input_topic"
OutputTopic == "output_topic"
DeadLetterTopic == "dead_letter_topic"
Topics == {InputTopic, OutputTopic, DeadLetterTopic}

\* Bodies of /process: well-formed ones, and one for each missing field.
IncomingMessageDTO ==
    [ID : Ids \cup {""}, Input : {"hello"}, From : {"a@x"}, To : {"b@x"},
     ReceivedAt : {ZeroTime, 2}]
    \cup {[ID |-> "", Input |-> "", From |-> "a@x", To |-> "b@x", ReceivedAt |-> ZeroTime],
          [ID |-> "", Input |-> "hello", From |-> "", To |-> "b@x", ReceivedAt |-> ZeroTime],
          [ID |-> "", Input |-> "hello", From |-> "a@x", To |-> "", ReceivedAt |-> ZeroTime]}

\* Answers of the LLM: classification and model_answer ("" is an absent model_answer).
LLMOutputs ==
    {<<"spam", "{}">>, <<"ham", "{}">>, <<"", "{}">>, <<"spam", "null">>, <<"spam", "">>}

\* Bodies of /validate_processed_message.
ValidateMessageDTO ==
    {[ID |-> id, Classification |-> o[1], ModelAnswer |-> o[2]] :
        id \in Ids \cup {""}, o \in LLMOutputs}

\* Bodies of POST /approve, a route the documentation lists.
ApproveDTO == [ID : Ids \cup {""}]

NoMail == [ID |-> ""]
NoSnapshot == [none |-> TRUE]
NoResp == [op |-> "none"]
NotTracked == 0 - 1

-----------------------------------------------------------------------------
(* Message shapes and their JSON encoding.  json.Marshal cannot fail on these *)
(* structs for the bodies drawn here (model_answer is valid JSON or absent), *)
(* so the marshal error returns of the service are not steps of the model.   *)

Mail(id, input, from, to, receivedAt) ==
    [ID |-> id, Input |-> input, From |-> from, To |-> to, ReceivedAt |-> receivedAt,
     Attempts |-> 0, Status |-> "new",
     Classification |-> "", ModelAnswer |-> "", FailedReason |-> ""]

LLMTaskMessage_Swapped(m) ==
    [id |-> m.ID, input |-> m.Input, from |-> m.To, to |-> m.From,
     received_at |-> m.ReceivedAt]

LLMTaskMessage(m) ==
    [id |-> m.ID, input |-> m.Input, from |-> m.From, to |-> m.To,
     received_at |-> m.ReceivedAt]

\* json.RawMessage.MarshalJSON: a nil message is written as null.
RawMessageJSON(raw) == IF Len(raw) = 0 THEN "null" ELSE raw

ProcessedMessage(dto) ==
    [id |-> dto.ID, classification |-> dto.Classification,
     model_answer |-> RawMessageJSON(dto.ModelAnswer)]

MarshalValidateDTO(dto) ==
    [id |-> dto.ID, classification |-> dto.Classification,
     model_answer |-> RawMessageJSON(dto.ModelAnswer)]

FailedMessage(dto, reason, now) ==
    [id |-> dto.ID, reason |-> reason, timestamp |-> now,
     payload |-> MarshalValidateDTO(dto)]

Wrap(prefix, err) == prefix \o ": " \o err

NotFound(id) == "mail id " \o id \o " not found"

-----------------------------------------------------------------------------
(* internal/storage: the table mails *)

\* What the received_at column keeps of a time written to it: the time itself
\* (the definition of the column is not part of the sources).
StoredTimestamp(t) == t

Row(m) ==
    [id |-> m.ID, input |-> m.Input, from_email |-> m.From, to_email |-> m.To,
     received_at |-> StoredTimestamp(m.ReceivedAt), attempts |-> m.Attempts, status |-> m.Status,
     classification |-> NULL, model_answer |-> NULL, failed_reason |-> NULL]

\* id is the primary key of mails: an INSERT of a present id is refused.
PrimaryKeyTaken(st, id) == id \in DOMAIN st

Update(st, id, row) == [i \in DOMAIN st |-> IF i = id THEN row ELSE st[i]]

CreateMail_Upsert(st, m, fault) ==
    IF fault THEN [store |-> st, err |-> DBError]
    ELSE [store |-> [i \in DOMAIN st \cup {m.ID} |-> IF i = m.ID THEN Row(m) ELSE st[i]],
          err |-> NoErr]

CreateMail(st, m, fault) ==
    IF fault THEN [store |-> st, err |-> DBError]
    ELSE IF PrimaryKeyTaken(st, m.ID) THEN [store |-> st, err |-> "duplicate key"]
    ELSE [store |-> [i \in DOMAIN st \cup {m.ID} |-> IF i = m.ID THEN Row(m) ELSE st[i]],
          err |-> NoErr]

NullString(v) == IF v = NULL THEN "" ELSE v

GetMail(st, id, fault) ==
    IF fault THEN [mail |-> NoMail, err |-> DBError]
    ELSE IF id \notin DOMAIN st
    THEN [mail |-> NoMail, err |-> Wrap("mail not found", "sql: no rows in result set")]
    ELSE [mail |-> [ID |-> st[id].id, Input |-> st[id].input, From |-> st[id].from_email,
                    To |-> st[id].to_email, ReceivedAt |-> st[id].received_at,
                    Attempts |-> st[id].attempts, Status |-> st[id].status,
                    Classification |-> NullString(st[id].classification),
                    ModelAnswer |-> NullString(st[id].model_answer),
                    FailedReason |-> NullString(st[id].failed_reason)],
          err |-> NoErr]

IncrementAttempts_SetOne(st, id, fault) ==
    IF fault THEN [store |-> st, err |-> DBError]
    ELSE IF id \notin DOMAIN st THEN [store |-> st, err |-> NotFound(id)]
    ELSE [store |-> Update(st, id, [st[id] EXCEPT !.attempts = 1]), err |-> NoErr]

IncrementAttempts(st, id, fault) ==
    IF fault THEN [store |-> st, err |-> DBError]
    ELSE IF id \notin DOMAIN st THEN [store |-> st, err |-> NotFound(id)]
    ELSE [store |-> Update(st, id, [st[id] EXCEPT !.attempts = @ + 1]), err |-> NoErr]

SaveLLMResult_ResetAttempts(st, id, classification, modelAnswer, fault) ==
    IF fault THEN [store |-> st, err |-> DBError]
    ELSE IF id \notin DOMAIN st THEN [store |-> st, err |-> NotFound(id)]
    ELSE [store |-> Update(st, id, [st[id] EXCEPT !.classification = classification,
                                                  !.model_answer = modelAnswer,
                                                  !.attempts = 0,
                                                  !.status = "processed"]),
          err |-> NoErr]

SaveLLMResult_IgnoreMissing(st, id, classification, modelAnswer, fault) ==
    IF fault THEN [store |-> st, err |-> DBError]
    ELSE IF id \notin DOMAIN st THEN [store |-> st, err |-> NoErr]
    ELSE [store |-> Update(st, id, [st[id] EXCEPT !.classification = classification,
                                                  !.model_answer = modelAnswer,
                                                  !.status = "processed"]),
          err |-> NoErr]

SaveLLMResult(st, id, classification, modelAnswer, fault) ==
    IF fault THEN [store |-> st, err |-> DBError]
    ELSE IF id \notin DOMAIN st THEN [store |-> st, err |-> NotFound(id)]
    ELSE [store |-> Update(st, id, [st[id] EXCEPT !.classification = classification,
                                                  !.model_answer = modelAnswer,
                                                  !.status = "processed"]),
          err |-> NoErr]

MarkAsFailed(st, id, reason, fault) ==
    IF fault THEN [store |-> st, err |-> DBError]
    ELSE IF id \notin DOMAIN st THEN [store |-> st, err |-> NotFound(id)]
    ELSE [store |-> Update(st, id, [st[id] EXCEPT !.status = "failed",
                                                  !.failed_reason = reason]),
          err |-> NoErr]

-----------------------------------------------------------------------------
(* Producer: a send either publishes the keyed message or fails *)

Send(tp, topic, key, value, fault) ==
    IF fault THEN [topics |-> tp, err |-> BrokerError]
    ELSE [topics |-> [tp EXCEPT ![topic] = @ (+) SetToBag({[key |-> key, value |-> value]})],
          err |-> NoErr]

-----------------------------------------------------------------------------
(* internal/messages: local code of the service *)

validateLLMOutput_NoNullCheck(dto) ==
    IF dto.Classification = "" THEN "empty classification"
    ELSE IF Len(dto.ModelAnswer) = 0 THEN "empty model_answer"
    ELSE NoErr

validateLLMOutput(dto) ==
    IF dto.Classification = "" THEN "empty classification"
    ELSE IF Len(dto.ModelAnswer) = 0 \/ dto.ModelAnswer = "null" THEN "empty model_answer"
    ELSE NoErr

ReachedLimit_Equal(currentAttempts, limit) == currentAttempts + 1 = limit

ReachedLimit_Strict(currentAttempts, limit) == currentAttempts + 1 > limit

ReachedLimit_NoPlusOne(currentAttempts, limit) == currentAttempts >= limit

ReachedLimit(currentAttempts, limit) == currentAttempts + 1 >= limit

Reason(limit, validationErr) ==
    "max attempts reached (" \o ToString(limit) \o "): " \o validationErr

ValidateIncoming_InputOnly(dto) ==
    IF dto.Input = "" THEN "input is empty" ELSE NoErr

ValidateIncoming(dto) ==
    IF dto.Input = "" THEN "input is empty"
    ELSE IF dto.From = "" \/ dto.To = "" THEN "from/to must be set"
    ELSE NoErr

\* uuid.NewString(): an id no record and no call in flight carries.
NewUUIDs == {u \in Ids : /\ u \notin DOMAIN store
                         /\ \A c \in BagToSet(inflight) : c.id # u}

-----------------------------------------------------------------------------
(* Calls *)

Observed == pre # NoSnapshot

\* serial: the call is handled alone and its starting point is kept.
\* redelivery: the call repeats the callback that was handled, without error, just before.
CanBegin(serial, op, dto) ==
    /\ calls < MaxCalls
    /\ calls' = calls + 1
    /\ IF serial THEN inflight = EmptyBag
                 ELSE BagCardinality(inflight) < MaxInFlight
    /\ pre' = IF serial
              THEN [store |-> store, topics |-> topics,
                    redelivery |-> /\ resp.op = "validate" /\ op = "validate"
                                   /\ resp.dto = dto /\ resp.err = NoErr]
              ELSE pre


Call(op, pc, id, dto, mail, verr) ==
    [op |-> op, pc |-> pc, id |-> id, dto |-> dto, mail |-> mail, verr |-> verr]

Response(op, id, dto, verr, err) ==
    [op |-> op, id |-> id, dto |-> dto, verr |-> verr, err |-> err]

\* run[id] counts the invalid callbacks handled for id since its admission was
\* accepted, as long as nothing else was done to the record.
RunAfter(c, err) ==
    IF ~Observed \/ c.id \notin Ids THEN run
    ELSE IF c.op = "process"
    THEN IF err = NoErr THEN [run EXCEPT ![c.id] = 0]
         ELSE IF c.pc = "SendTask" THEN [run EXCEPT ![c.id] = NotTracked]
         ELSE run
    ELSE IF err = NoErr /\ c.verr # NoErr /\ run[c.id] # NotTracked
    THEN [run EXCEPT ![c.id] = @ + 1]
    ELSE [run EXCEPT ![c.id] = NotTracked]

Enter(c) ==
    /\ inflight' = inflight (+) SetToBag({c})
    /\ UNCHANGED <<resp, run>>

Reject(op, dto, err) ==
    /\ resp' = IF Observed' THEN Response(op, dto.ID, dto, NoErr, err) ELSE resp
    /\ UNCHANGED <<inflight, run>>

Advance(c, pc) ==
    /\ inflight' = (inflight (-) SetToBag({c})) (+) SetToBag({[c EXCEPT !.pc = pc]})
    /\ UNCHANGED <<resp, run>>

Return(c, err) ==
    /\ inflight' = inflight (-) SetToBag({c})
    /\ resp' = IF Observed THEN Response(c.op, c.id, c.dto, c.verr, err) ELSE resp
    /\ run' = RunAfter(c, err)

-----------------------------------------------------------------------------
(* Service.ProcessIncomingMessage *)

ProcessIncomingMessage(dto, serial) ==
    /\ CanBegin(serial, "process", dto)
    /\ UNCHANGED <<store, topics, maxAttempts>>
    /\ IF ValidateIncoming(dto) # NoErr
       THEN Reject("process", dto, ValidateIncoming(dto))
       ELSE \E id \in (IF dto.ID = "" THEN NewUUIDs ELSE {dto.ID}),
               receivedAt \in (IF dto.ReceivedAt = ZeroTime THEN Clock ELSE {dto.ReceivedAt}) :
                Enter(Call("process", "CreateMail", id, dto,
                           Mail(id, dto.Input, dto.From, dto.To, receivedAt), NoErr))

ProcessCreateMail_IgnoreErr(c, fault) ==
    /\ c.op = "process" /\ c.pc = "CreateMail"
    /\ LET r == CreateMail(store, c.mail, fault) IN
         /\ store' = r.store
         /\ Advance(c, "SendTask")
    /\ UNCHANGED <<topics, maxAttempts, pre, calls>>

ProcessCreateMail(c, fault) ==
    /\ c.op = "process" /\ c.pc = "CreateMail"
    /\ LET r == CreateMail(store, c.mail, fault) IN
         /\ store' = r.store
         /\ IF r.err # NoErr THEN Return(c, Wrap("save mail", r.err))
                             ELSE Advance(c, "SendTask")
    /\ UNCHANGED <<topics, maxAttempts, pre, calls>>

ProcessSendTask(c, fault) ==
    /\ c.op = "process" /\ c.pc = "SendTask"
    /\ LET r == Send(topics, InputTopic, c.id, LLMTaskMessage(c.mail), fault) IN
         /\ topics' = r.topics
         /\ Return(c, IF r.err # NoErr THEN Wrap("send to kafka", r.err) ELSE NoErr)
    /\ UNCHANGED <<store, maxAttempts, pre, calls>>

-----------------------------------------------------------------------------
(* Service.ValidateProcessedMessage *)

ValidateProcessedMessage_NoIdCheck(dto, serial) ==
    /\ CanBegin(serial, "validate", dto)
    /\ UNCHANGED <<store, topics, maxAttempts>>
    /\ IF validateLLMOutput(dto) # NoErr
       THEN Enter(Call("validate", "GetMail", dto.ID, dto, NoMail, validateLLMOutput(dto)))
       ELSE Enter(Call("validate", "SaveLLMResult", dto.ID, dto, NoMail, NoErr))

ValidateProcessedMessage(dto, serial) ==
    /\ CanBegin(serial, "validate", dto)
    /\ UNCHANGED <<store, topics, maxAttempts>>
    /\ IF dto.ID = "" THEN Reject("validate", dto, "id is empty")
       ELSE IF validateLLMOutput(dto) # NoErr
       THEN Enter(Call("validate", "GetMail", dto.ID, dto, NoMail, validateLLMOutput(dto)))
       ELSE Enter(Call("validate", "SaveLLMResult", dto.ID, dto, NoMail, NoErr))

ValidateSaveLLMResult_IgnoreErr(c, fault) ==
    /\ c.op = "validate" /\ c.pc = "SaveLLMResult"
    /\ LET r == SaveLLMResult(store, c.dto.ID, c.dto.Classification, c.dto.ModelAnswer, fault) IN
         /\ store' = r.store
         /\ Advance(c, "SendProcessed")
    /\ UNCHANGED <<topics, maxAttempts, pre, calls>>

ValidateSaveLLMResult(c, fault) ==
    /\ c.op = "validate" /\ c.pc = "SaveLLMResult"
    /\ LET r == SaveLLMResult(store, c.dto.ID, c.dto.Classification, c.dto.ModelAnswer, fault) IN
         /\ store' = r.store
         /\ IF r.err # NoErr THEN Return(c, Wrap("save llm result", r.err))
                             ELSE Advance(c, "SendProcessed")
    /\ UNCHANGED <<topics, maxAttempts, pre, calls>>

ValidateSendProcessed(c, fault) ==
    /\ c.op = "validate" /\ c.pc = "SendProcessed"
    /\ LET r == Send(topics, OutputTopic, c.dto.ID, ProcessedMessage(c.dto), fault) IN
         /\ topics' = r.topics
         /\ Return(c, IF r.err # NoErr THEN Wrap("send processed to kafka", r.err) ELSE NoErr)
    /\ UNCHANGED <<store, maxAttempts, pre, calls>>

-----------------------------------------------------------------------------
(* Service.handleInvalidLLMOutput *)

InvalidGetMail(c, fault) ==
    /\ c.op = "validate" /\ c.pc = "GetMail"
    /\ LET r == GetMail(store, c.dto.ID, fault) IN
         IF r.err # NoErr THEN Return(c, Wrap("get mail", r.err))
         ELSE /\ inflight' = (inflight (-) SetToBag({c})) (+)
                   SetToBag({[c EXCEPT !.mail = r.mail,
                                       !.pc = IF ReachedLimit(r.mail.Attempts, maxAttempts)
                                              THEN "MarkAsFailed" ELSE "IncrementAttempts"]})
              /\ UNCHANGED <<resp, run>>
    /\ UNCHANGED <<store, topics, maxAttempts, pre, calls>>

InvalidMarkAsFailed(c, fault) ==
    /\ c.op = "validate" /\ c.pc = "MarkAsFailed"
    /\ LET r == MarkAsFailed(store, c.dto.ID, Reason(maxAttempts, c.verr), fault) IN
         /\ store' = r.store
         /\ IF r.err # NoErr THEN Return(c, Wrap("mark as failed", r.err))
                             ELSE Advance(c, "SendFailed")
    /\ UNCHANGED <<topics, maxAttempts, pre, calls>>

InvalidSendFailed_ReturnValidationErr(c, now, fault) ==
    /\ c.op = "validate" /\ c.pc = "SendFailed"
    /\ LET r == Send(topics, DeadLetterTopic, c.dto.ID,
                     FailedMessage(c.dto, Reason(maxAttempts, c.verr), now), fault) IN
         /\ topics' = r.topics
         /\ Return(c, IF r.err # NoErr THEN Wrap("send to dlq", r.err)
                      ELSE Wrap("invalid llm output", c.verr))
    /\ UNCHANGED <<store, maxAttempts, pre, calls>>

InvalidSendFailed(c, now, fault) ==
    /\ c.op = "validate" /\ c.pc = "SendFailed"
    /\ LET r == Send(topics, DeadLetterTopic, c.dto.ID,
                     FailedMessage(c.dto, Reason(maxAttempts, c.verr), now), fault) IN
         /\ topics' = r.topics
         /\ Return(c, IF r.err # NoErr THEN Wrap("send to dlq", r.err) ELSE NoErr)
    /\ UNCHANGED <<store, maxAttempts, pre, calls>>

InvalidIncrementAttempts_IgnoreErr(c, fault) ==
    /\ c.op = "validate" /\ c.pc = "IncrementAttempts"
    /\ LET r == IncrementAttempts(store, c.dto.ID, fault) IN
         /\ store' = r.store
         /\ Advance(c, "SendRetry")
    /\ UNCHANGED <<topics, maxAttempts, pre, calls>>

InvalidIncrementAttempts_ReadModifyWrite(c, fault) ==
    /\ c.op = "validate" /\ c.pc = "IncrementAttempts"
    /\ LET r == IncrementAttempts(store, c.dto.ID, fault) IN
         /\ store' = IF r.err # NoErr THEN r.store
                     ELSE Update(store, c.dto.ID,
                                 [store[c.dto.ID] EXCEPT !.attempts = c.mail.Attempts + 1])
         /\ IF r.err # NoErr THEN Return(c, Wrap("increment attempts", r.err))
                             ELSE Advance(c, "SendRetry")
    /\ UNCHANGED <<topics, maxAttempts, pre, calls>>

InvalidIncrementAttempts(c, fault) ==
    /\ c.op = "validate" /\ c.pc = "IncrementAttempts"
    /\ LET r == IncrementAttempts(store, c.dto.ID, fault) IN
         /\ store' = r.store
         /\ IF r.err # NoErr THEN Return(c, Wrap("increment attempts", r.err))
                             ELSE Advance(c, "SendRetry")
    /\ UNCHANGED <<topics, maxAttempts, pre, calls>>

InvalidSendRetry_NoReceivedAt(c, fault) ==
    /\ c.op = "validate" /\ c.pc = "SendRetry"
    /\ LET r == Send(topics, InputTopic, c.dto.ID,
                     LLMTaskMessage([c.mail EXCEPT !.ReceivedAt = ZeroTime]), fault) IN
         /\ topics' = r.topics
         /\ Return(c, IF r.err # NoErr THEN Wrap("send retry to kafka", r.err) ELSE NoErr)
    /\ UNCHANGED <<store, maxAttempts, pre, calls>>

InvalidSendRetry(c, fault) ==
    /\ c.op = "validate" /\ c.pc = "SendRetry"
    /\ LET r == Send(topics, InputTopic, c.dto.ID, LLMTaskMessage(c.mail), fault) IN
         /\ topics' = r.topics
         /\ Return(c, IF r.err # NoErr THEN Wrap("send retry to kafka", r.err) ELSE NoErr)
    /\ UNCHANGED <<store, maxAttempts, pre, calls>>

-----------------------------------------------------------------------------
(* Handler.Register: /process and /validate_processed_message are the only    *)
(* patterns on the mux, so a request for any other path, /approve among them, *)
(* is answered by the mux itself with 404 and reaches no method of Service.   *)

NotFoundHandler(op, dto, serial) ==
    /\ CanBegin(serial, op, dto)
    /\ Reject(op, dto, "404 page not found")
    /\ UNCHANGED <<store, topics, maxAttempts>>

-----------------------------------------------------------------------------
(* Specifications *)

\* NewService: the limit is whatever the configuration holds.
Init ==
    /\ store = [i \in {} |-> NULL]
    /\ topics = [t \in Topics |-> EmptyBag]
    /\ maxAttempts \in Limits
    /\ inflight = EmptyBag
    /\ pre = NoSnapshot
    /\ resp = NoResp
    /\ run = [i \in Ids |-> NotTracked]
    /\ calls = 0

Calls == BagToSet(inflight)

Step ==
    \/ \E c \in Calls, fault \in BOOLEAN : ProcessCreateMail(c, fault)
    \/ \E c \in Calls, fault \in BOOLEAN : ProcessSendTask(c, fault)
    \/ \E c \in Calls, fault \in BOOLEAN : ValidateSaveLLMResult(c, fault)
    \/ \E c \in Calls, fault \in BOOLEAN : ValidateSendProcessed(c, fault)
    \/ \E c \in Calls, fault \in BOOLEAN : InvalidGetMail(c, fault)
    \/ \E c \in Calls, fault \in BOOLEAN : InvalidMarkAsFailed(c, fault)
    \/ \E c \in Calls, fault \in BOOLEAN, now \in Clock : InvalidSendFailed(c, now, fault)
    \/ \E c \in Calls, fault \in BOOLEAN : InvalidIncrementAttempts(c, fault)
    \/ \E c \in Calls, fault \in BOOLEAN : InvalidSendRetry(c, fault)

Next ==
    \/ \E dto \in IncomingMessageDTO : ProcessIncomingMessage(dto, FALSE)
    \/ \E dto \in ValidateMessageDTO : ValidateProcessedMessage(dto, FALSE)
    \/ \E dto \in ApproveDTO : NotFoundHandler("approve", dto, FALSE)
    \/ Step

NextSerial ==
    \/ \E dto \in IncomingMessageDTO : ProcessIncomingMessage(dto, TRUE)
    \/ \E dto \in ValidateMessageDTO : ValidateProcessedMessage(dto, TRUE)
    \/ \E dto \in ApproveDTO : NotFoundHandler("approve", dto, TRUE)
    \/ Step

Spec == Init /\ [][Next]_vars

SpecSerial == Init /\ [][NextSerial]_vars

-----------------------------------------------------------------------------
(* Vocabulary of the properties *)

\* SpecSerial: a call has returned; pre is where it began, resp what it returned.
Done == Observed /\ inflight = EmptyBag /\ resp # NoResp

KeyCount(bag, id) ==
    BagCardinality([m \in {x \in BagToSet(bag) : x.key = id} |-> bag[m]])

\* bag is before plus exactly one message, keyed by id
OneMore(bag, before, id) ==
    \E m \in BagToSet(bag) : m.key = id /\ bag = before (+) SetToBag({m})

InvalidHandled ==
    /\ Done /\ resp.op = "validate" /\ resp.verr # NoErr /\ resp.err = NoErr

ValidHandled ==
    /\ Done /\ resp.op = "validate" /\ resp.dto.ID # "" /\ resp.verr = NoErr

-----------------------------------------------------------------------------
(* Properties *)

\* C1: an invalid callback for an existing record whose attempts n has
\* n + 1 >= maxAttempts leaves the record failed with a non-empty reason, adds
\* exactly one dead-letter message keyed by the id, leaves attempts at n and
\* publishes no task.
C1_DeadLetterBranch ==
    (/\ InvalidHandled
     /\ resp.id \in DOMAIN pre.store
     /\ pre.store[resp.id].attempts + 1 >= maxAttempts)
    => /\ store[resp.id].status = "failed"
       /\ store[resp.id].failed_reason # NULL
       /\ Len(store[resp.id].failed_reason) > 0
       /\ OneMore(topics[DeadLetterTopic], pre.topics[DeadLetterTopic], resp.id)
       /\ store[resp.id].attempts = pre.store[resp.id].attempts
       /\ topics[InputTopic] = pre.topics[InputTopic]

C1_Witness ==
    /\ InvalidHandled
    /\ resp.id \in DOMAIN pre.store
    /\ pre.store[resp.id].attempts = 2 /\ maxAttempts = 3
    /\ store[resp.id].status = "failed"

\* C2: an invalid callback for a record in status new whose attempts n has
\* n + 1 < maxAttempts sets attempts to n + 1, adds exactly one task keyed by the
\* id to the input topic, keeps status new and publishes nothing else.
C2_RetryBranch ==
    (/\ InvalidHandled
     /\ resp.id \in DOMAIN pre.store
     /\ pre.store[resp.id].status = "new"
     /\ pre.store[resp.id].attempts + 1 < maxAttempts)
    => /\ store[resp.id].attempts = pre.store[resp.id].attempts + 1
       /\ OneMore(topics[InputTopic], pre.topics[InputTopic], resp.id)
       /\ store[resp.id].status = "new"
       /\ topics[OutputTopic] = pre.topics[OutputTopic]
       /\ topics[DeadLetterTopic] = pre.topics[DeadLetterTopic]

C2_Witness ==
    /\ InvalidHandled
    /\ resp.id \in DOMAIN pre.store
    /\ pre.store[resp.id].status = "new"
    /\ pre.store[resp.id].attempts = 1 /\ maxAttempts = 3
    /\ store[resp.id].attempts = 2

\* C3: after k invalid callbacks handled one at a time for a freshly admitted id,
\* with M = maxAttempts >= 1: while k < M the record is new with attempts k, one
\* retry task per callback and no dead-letter message; at k = M it is failed with
\* attempts M - 1, exactly one dead-letter message and no further retry task.
C3_ConsecutiveInvalid ==
    \A id \in Ids :
        (/\ inflight = EmptyBag
         /\ maxAttempts >= 1
         /\ run[id] # NotTracked
         /\ run[id] <= maxAttempts)
        => IF run[id] < maxAttempts
           THEN /\ store[id].status = "new"
                /\ store[id].attempts = run[id]
                /\ KeyCount(topics[InputTopic], id) = 1 + run[id]
                /\ KeyCount(topics[DeadLetterTopic], id) = 0
           ELSE /\ store[id].status = "failed"
                /\ store[id].attempts = maxAttempts - 1
                /\ KeyCount(topics[InputTopic], id) = maxAttempts
                /\ KeyCount(topics[DeadLetterTopic], id) = 1

C3_Witness ==
    \E id \in Ids :
        /\ inflight = EmptyBag
        /\ maxAttempts = 3 /\ run[id] = 3
        /\ store[id].status = "failed"

\* C4: in every state and for every id, attempts <= maxAttempts (maxAttempts >= 1),
\* also when several callbacks for one id are in flight together.
C4_AttemptsBounded ==
    maxAttempts >= 1 => \A id \in DOMAIN store : store[id].attempts <= maxAttempts

\* C5: processed and failed are terminal: no step changes such a status
\* (stated for the sensible limits, maxAttempts >= 1).
C5_TerminalStatus ==
    [][\A id \in DOMAIN store :
          (maxAttempts >= 1 /\ store[id].status \in {"processed", "failed"})
          => store'[id].status = store[id].status]_vars

\* C6: once a record is processed with a result or failed with a reason, its
\* attempts never changes (stated for maxAttempts >= 1).
C6_AttemptsFrozen ==
    [][\A id \in DOMAIN store :
          (/\ maxAttempts >= 1
           /\ \/ store[id].status = "processed" /\ store[id].classification # NULL
              \/ store[id].status = "failed" /\ store[id].failed_reason # NULL)
          => store'[id].attempts = store[id].attempts]_vars

\* A store or broker failure, as the service reports it.
Technical(err) ==
    \E prefix \in {"save mail", "send to kafka", "save llm result", "send processed to kafka",
                   "get mail", "mark as failed", "send to dlq", "increment attempts",
                   "send retry to kafka"} :
        err \in {Wrap(prefix, DBError), Wrap(prefix, BrokerError)}

C8_Idempotent ==
    (Done /\ maxAttempts >= 1 /\ pre.redelivery /\ resp.err = NoErr)
    => store = pre.store /\ topics = pre.topics

\* C9: an accepted admission of an id that was not present leaves a record with
\* that id in status new with attempts 0 and the fields of the request, and adds
\* exactly one task keyed by the id, carrying id, input, from, to and received_at.
C9_Admission ==
    (/\ Done /\ resp.op = "process" /\ resp.err = NoErr
     /\ resp.id \notin DOMAIN pre.store)
    => /\ resp.id \in DOMAIN store
       /\ resp.dto.Input # "" /\ resp.dto.From # "" /\ resp.dto.To # ""
       /\ resp.dto.ID # "" => resp.id = resp.dto.ID
       /\ store[resp.id].id = resp.id
       /\ store[resp.id].status = "new"
       /\ store[resp.id].attempts = 0
       /\ store[resp.id].input = resp.dto.Input
       /\ store[resp.id].from_email = resp.dto.From
       /\ store[resp.id].to_email = resp.dto.To
       /\ resp.dto.ReceivedAt # ZeroTime => store[resp.id].received_at = resp.dto.ReceivedAt
       /\ store[resp.id].received_at # ZeroTime
       /\ topics[InputTopic] = pre.topics[InputTopic] (+)
              SetToBag({[key |-> resp.id,
                         value |-> [id |-> resp.id, input |-> resp.dto.Input,
                                    from |-> resp.dto.From, to |-> resp.dto.To,
                                    received_at |-> store[resp.id].received_at]]})
       /\ KeyCount(topics[InputTopic], resp.id) = 1
       /\ topics[OutputTopic] = pre.topics[OutputTopic]
       /\ topics[DeadLetterTopic] = pre.topics[DeadLetterTopic]

C9_Witness ==
    /\ Done /\ resp.op = "process" /\ resp.err = NoErr
    /\ resp.id \notin DOMAIN pre.store
    /\ resp.dto.ID = "" /\ resp.dto.ReceivedAt = ZeroTime
    /\ resp.id \in DOMAIN store

\* C10: in admission of an id that was not present the record is persisted
\* before the task is published: a task in the input topic always has its
\* record; a failed save publishes nothing; a failed publish returns an error
\* and leaves the record new with attempts 0 and no task; success is returned
\* only with the record and its task both there.
C10_PersistBeforePublish ==
    /\ \A m \in BagToSet(topics[InputTopic]) : m.key \in DOMAIN store
    /\ (/\ Done /\ resp.op = "process" /\ ValidateIncoming(resp.dto) = NoErr
        /\ resp.id \notin DOMAIN pre.store)
       => \/ /\ resp.err = Wrap("save mail", DBError)
             /\ store = pre.store /\ topics = pre.topics
          \/ /\ resp.err = Wrap("send to kafka", BrokerError)
             /\ resp.id \in DOMAIN store
             /\ store[resp.id].status = "new"
             /\ store[resp.id].attempts = 0
             /\ KeyCount(topics[InputTopic], resp.id) = 0
             /\ topics = pre.topics
          \/ /\ resp.err = NoErr
             /\ resp.id \in DOMAIN store
             /\ KeyCount(topics[InputTopic], resp.id) = 1

C10_Witness ==
    /\ Done /\ resp.op = "process"
    /\ resp.id \notin DOMAIN pre.store
    /\ resp.err = Wrap("send to kafka", BrokerError)
    /\ resp.id \in DOMAIN store

C12_WrittenOnce ==
    [][\A id \in DOMAIN store :
          store[id].classification # NULL =>
              /\ id \in DOMAIN store'
              /\ store'[id].classification = store[id].classification
              /\ store'[id].model_answer = store[id].model_answer]_vars

\* C13: failed_reason is set only together with status failed: in every reachable
\* state a record whose status is new or processed has an empty failed_reason.
C13_FailedReasonOnlyFailed ==
    maxAttempts >= 1 =>
        \A id \in DOMAIN store :
            store[id].status \in {"new", "processed"} => store[id].failed_reason = NULL

\* C14: a structural validation failure is not an error of the callback: for an
\* existing record, an invalid callback that meets no store or broker failure
\* returns no error, both when it retries and when it dead-letters.
C14_InvalidIsSuccess ==
    (/\ Done /\ resp.op = "validate" /\ resp.verr # NoErr
     /\ resp.id \in DOMAIN pre.store
     /\ ~Technical(resp.err))
    => /\ resp.err = NoErr
       /\ \/ store[resp.id].status = "failed"
          \/ store[resp.id].attempts = pre.store[resp.id].attempts + 1

\* an invalid callback dead-letters the record and still returns no error
C14_Witness ==
    /\ Done /\ resp.op = "validate" /\ resp.verr = "empty model_answer"
    /\ resp.id \in DOMAIN pre.store
    /\ pre.store[resp.id].status = "new"
    /\ store[resp.id].status = "failed"
    /\ KeyCount(topics[DeadLetterTopic], resp.id) = 1
    /\ resp.err = NoErr

\* C15: a callback for an id that has no record creates no record and publishes
\* nothing, and, unless the store itself fails, ends with a not-found error,
\* whether its payload is structurally valid or not.
C15_UnknownId ==
    (/\ Done /\ resp.op = "validate" /\ resp.id # ""
     /\ resp.id \notin DOMAIN pre.store)
    => /\ store = pre.store
       /\ topics = pre.topics
       /\ resp.err # NoErr
       /\ ~Technical(resp.err)
          => resp.err = IF resp.verr = NoErr
                        THEN Wrap("save llm result", NotFound(resp.id))
                        ELSE Wrap("get mail",
                                  Wrap("mail not found", "sql: no rows in result set"))

\* an invalid callback for an absent id ended with the not-found error of GetMail
C15_Witness ==
    /\ Done /\ resp.op = "validate" /\ resp.id \in Ids
    /\ resp.id \notin DOMAIN pre.store
    /\ resp.verr # NoErr
    /\ resp.err = "get mail: mail not found: sql: no rows in result set"

\* C16: an admission with an empty input, an empty from or an empty to returns a
\* validation error and has no effect: no record is created and no message is
\* published.
C16_AdmissionRejected ==
    (/\ Done /\ resp.op = "process"
     /\ \/ resp.dto.Input = ""
        \/ resp.dto.From = ""
        \/ resp.dto.To = "")
    => /\ resp.err = IF resp.dto.Input = "" THEN "input is empty"
                                            ELSE "from/to must be set"
       /\ store = pre.store
       /\ topics = pre.topics

\* an admission without a sender was refused while a record was already stored
C16_Witness ==
    /\ Done /\ resp.op = "process"
    /\ resp.dto.Input # "" /\ resp.dto.From = ""
    /\ resp.err = "from/to must be set"
    /\ DOMAIN store # {}

\* C17: a callback with an empty id returns a validation error without any store
\* or broker operation, for every classification and model answer: records and
\* topics are as they were when it began.
C17_EmptyIdRejected ==
    (/\ Done /\ resp.op = "validate" /\ resp.dto.ID = "")
    => /\ resp.err = "id is empty"
       /\ store = pre.store
       /\ topics = pre.topics

\* a callback with an empty id and an invalid payload was refused for its id
C17_Witness ==
    /\ Done /\ resp.op = "validate"
    /\ resp.dto.ID = "" /\ resp.dto.Classification = ""
    /\ resp.err = "id is empty"
    /\ DOMAIN store # {}

-----------------------------------------------------------------------------
(* validateLLMOutput alone, over a wider alphabet of payloads and over records *)
(* in each status                                                             *)

Classifications == {"", " ", "spam", "null"}
ModelAnswers == {"", "null", " null", "NULL", "\"\"", "{}", "[]", "0"}

\* the rows a record of id can be under a limit: new, processed with a result,
\* failed with a reason once the limit was reached
StoredRows(id, limit) ==
    LET new(n) == [Row(Mail(id, "hello", "a@x", "b@x", 1)) EXCEPT !.attempts = n] IN
    UNION {{new(n),
            [new(n) EXCEPT !.status = "processed",
                           !.classification = "spam", !.model_answer = "{}"]} \cup
           {[new(n) EXCEPT !.status = "failed",
                           !.failed_reason = Reason(limit, "empty classification")] :
               x \in {y \in {n} : ReachedLimit(y, limit)}} :
           n \in 0..MaxLimit}

InitValidate ==
    /\ maxAttempts \in Limits
    /\ store \in {[i \in {} |-> NULL]} \cup
                 UNION {{[i \in {id} |-> row] : row \in StoredRows(id, maxAttempts)} :
                        id \in Ids}
    /\ topics = [t \in Topics |-> EmptyBag]
    /\ inflight = EmptyBag
    /\ pre = NoSnapshot
    /\ resp = NoResp
    /\ run = [i \in Ids |-> NotTracked]
    /\ calls = 0

CallValidateLLMOutput(dto) ==
    /\ resp' = Response("validateLLMOutput", dto.ID, dto, validateLLMOutput(dto), NoErr)
    /\ UNCHANGED <<store, topics, maxAttempts, inflight, pre, run, calls>>

NextValidate ==
    \E id \in Ids, c \in Classifications, a \in ModelAnswers :
        CallValidateLLMOutput([ID |-> id, Classification |-> c, ModelAnswer |-> a])

SpecValidate == InitValidate /\ [][NextValidate]_vars

C19_ApproveIdempotent ==
    (/\ Done /\ resp.op = "approve"
     /\ resp.id \in DOMAIN pre.store)
    => /\ resp.err = NoErr
       /\ resp.id \in DOMAIN store
       /\ "is_approved" \in DOMAIN store[resp.id]
       /\ store[resp.id].is_approved = TRUE

\* C20: an invalid callback decides from the attempts n it read, whatever other
\* callbacks for the id have written since: with n + 1 < maxAttempts it takes the
\* retry branch, adding 1 to the stored attempts and publishing one retry task,
\* and with n + 1 >= maxAttempts the dead-letter branch, publishing one
\* dead-letter message.  Two callbacks that read the same n thus both retry
\* (attempts rises by 2, two retry tasks) or both dead-letter (two messages), and
\* a dead-lettering can come after more than maxAttempts handled callbacks.
C20_StaleRead ==
    [][\A c \in Calls :
          (c.op = "validate" /\ c.verr # NoErr /\ c.pc # "GetMail") =>
              /\ c.pc \in {"IncrementAttempts", "SendRetry"}
                    <=> c.mail.Attempts + 1 < maxAttempts
              /\ c.pc \in {"MarkAsFailed", "SendFailed"}
                    <=> c.mail.Attempts + 1 >= maxAttempts
              /\ (/\ c.pc = "IncrementAttempts"
                  /\ inflight' = (inflight (-) SetToBag({c}))
                                    (+) SetToBag({[c EXCEPT !.pc = "SendRetry"]}))
                 => store'[c.id].attempts = store[c.id].attempts + 1
              /\ (/\ c.pc = "SendRetry"
                  /\ inflight' = inflight (-) SetToBag({c})
                  /\ topics' # topics)
                 => /\ OneMore(topics'[InputTopic], topics[InputTopic], c.id)
                    /\ topics'[DeadLetterTopic] = topics[DeadLetterTopic]
              /\ (/\ c.pc = "SendFailed"
                  /\ inflight' = inflight (-) SetToBag({c})
                  /\ topics' # topics)
                 => /\ OneMore(topics'[DeadLetterTopic], topics[DeadLetterTopic], c.id)
                    /\ topics'[InputTopic] = topics[InputTopic]]_vars

\* limit 2: two callbacks read attempts 0 and both retried (attempts 2, two retry
\* tasks beside the admission's task), and a third callback, reading 2, is about
\* to dead-letter the record
C20_Witness ==
    /\ maxAttempts = 2
    /\ \E id \in DOMAIN store :
          /\ store[id].attempts = 2
          /\ KeyCount(topics[InputTopic], id) = 3
          /\ KeyCount(topics[DeadLetterTopic], id) = 0
          /\ \E c \in Calls : /\ c.id = id /\ c.pc = "MarkAsFailed"
                              /\ c.mail.Attempts = 2

\* C21: the increment is atomic at the store and none is lost: a record starts
\* with attempts 0, every IncrementAttempts that completes for its id adds
\* exactly 1 to the stored attempts whatever the completing call had read, and
\* no other step changes attempts; so under any interleaving the stored attempts
\* is the number of completed increments.
C21_NoLostIncrement ==
    [][\A id \in Ids :
          /\ (id \notin DOMAIN store /\ id \in DOMAIN store')
                => store'[id].attempts = 0
          /\ id \in DOMAIN store
                => /\ id \in DOMAIN store'
                   /\ store'[id].attempts = store[id].attempts +
                        (IF \E c \in Calls :
                               /\ c.id = id /\ c.pc = "IncrementAttempts"
                               /\ inflight' = (inflight (-) SetToBag({c}))
                                       (+) SetToBag({[c EXCEPT !.pc = "SendRetry"]})
                         THEN 1 ELSE 0)]_vars

\* two callbacks that had both read attempts 0 have both completed their
\* increment and are both about to publish: attempts is 2
C21_Witness ==
    \E c \in Calls :
        /\ c.op = "validate" /\ c.pc = "SendRetry"
        /\ c.mail.Attempts = 0
        /\ CopiesIn(c, inflight) = 2
        /\ c.id \in DOMAIN store
        /\ store[c.id].attempts = 2

\* C22: every task on the input topic carries the id, input, from, to and
\* received_at its record was admitted with, so all tasks of one id, the
\* admission's and every retry's, have the same content; and no step modifies
\* those fields of a record.
C22_TaskContent ==
    /\ [](\A m \in BagToSet(topics[InputTopic]) :
             /\ m.key \in DOMAIN store
             /\ m.value = [id |-> store[m.key].id, input |-> store[m.key].input,
                           from |-> store[m.key].from_email, to |-> store[m.key].to_email,
                           received_at |-> store[m.key].received_at]
             /\ m.value.id = m.key)
    /\ [][\A id \in DOMAIN store :
             /\ id \in DOMAIN store'
             /\ store'[id].id = store[id].id
             /\ store'[id].input = store[id].input
             /\ store'[id].from_email = store[id].from_email
             /\ store'[id].to_email = store[id].to_email
             /\ store'[id].received_at = store[id].received_at]_vars

\* two retries were published beside the admission's task: one content, three
\* copies
C22_Witness ==
    \E m \in BagToSet(topics[InputTopic]) :
        /\ CopiesIn(m, topics[InputTopic]) = 3
        /\ m.key \in DOMAIN store
        /\ store[m.key].attempts = 2
        /\ m.value.received_at = 2

\* C23: in each branch of a callback the store write comes before the publish
\* and stays when the publish fails.  An output message exists only for a record
\* with a saved result and a dead-letter message only for a record with a failed
\* reason; a callback that published a task had incremented attempts.  A callback
\* whose publish failed returns the broker's error, publishes nothing, and leaves
\* the record processed with its result, failed, or with attempts incremented.
C23_WriteBeforePublish ==
    /\ \A m \in BagToSet(topics[OutputTopic]) :
          /\ m.key \in DOMAIN store
          /\ store[m.key].classification # NULL
          /\ store[m.key].model_answer # NULL
    /\ \A m \in BagToSet(topics[DeadLetterTopic]) :
          /\ m.key \in DOMAIN store
          /\ store[m.key].failed_reason # NULL
    /\ (Done /\ resp.op = "validate" /\ resp.id # "") =>
          /\ topics[InputTopic] # pre.topics[InputTopic]
                => /\ resp.id \in DOMAIN pre.store
                   /\ store[resp.id].attempts = pre.store[resp.id].attempts + 1
          /\ topics[OutputTopic] # pre.topics[OutputTopic]
                => /\ store[resp.id].status = "processed"
                   /\ store[resp.id].classification = resp.dto.Classification
          /\ topics[DeadLetterTopic] # pre.topics[DeadLetterTopic]
                => store[resp.id].status = "failed"
          /\ resp.err = Wrap("send processed to kafka", BrokerError)
                => /\ topics = pre.topics
                   /\ store[resp.id].status = "processed"
                   /\ store[resp.id].classification = resp.dto.Classification
                   /\ store[resp.id].model_answer = resp.dto.ModelAnswer
          /\ resp.err = Wrap("send to dlq", BrokerError)
                => /\ topics = pre.topics
                   /\ store[resp.id].status = "failed"
                   /\ store[resp.id].failed_reason = Reason(maxAttempts, resp.verr)
          /\ resp.err = Wrap("send retry to kafka", BrokerError)
                => /\ topics = pre.topics
                   /\ store[resp.id].attempts = pre.store[resp.id].attempts + 1

\* the dead-letter publish failed: the record is failed and no dead-letter
\* message exists
C23_Witness ==
    /\ Done /\ resp.op = "validate"
    /\ resp.err = "send to dlq: broker error"
    /\ resp.id \in DOMAIN store
    /\ store[resp.id].status = "failed"
    /\ pre.store[resp.id].status = "new"
    /\ KeyCount(topics[DeadLetterTopic], resp.id) = 0

\* calls in flight for id that have written and are about to publish a task
PendingTasks(id) ==
    BagCardinality([c \in {x \in Calls : x.id = id /\ x.pc \in {"SendTask", "SendRetry"}}
                       |-> inflight[c]])

\* tasks that 1 + attempts allows for and that are neither published nor pending
MissingTasks(id) ==
    IF id \in DOMAIN store
    THEN 1 + store[id].attempts - KeyCount(topics[InputTopic], id) - PendingTasks(id)
    ELSE 0 - KeyCount(topics[InputTopic], id) - PendingTasks(id)

\* C24: under any interleaving the tasks published to the input topic for an id
\* number at most 1 + attempts (none without a record).  The difference is the
\* tasks still to be published by calls in flight plus the tasks whose publish
\* failed: it is never negative and grows only by a failed publish, so the count
\* is exactly 1 + attempts when no call is in flight and no publish has failed.
C24_TasksBounded ==
    /\ [](\A id \in Ids :
             /\ MissingTasks(id) >= 0
             /\ id \in DOMAIN store
                   => KeyCount(topics[InputTopic], id) <= 1 + store[id].attempts
             /\ id \notin DOMAIN store => KeyCount(topics[InputTopic], id) = 0)
    /\ [][\A id \in Ids :
             MissingTasks(id)' # MissingTasks(id)
                => /\ MissingTasks(id)' = MissingTasks(id) + 1
                   /\ topics' = topics
                   /\ \E c \in Calls : /\ c.id = id
                                       /\ c.pc \in {"SendTask", "SendRetry"}
                                       /\ inflight' = inflight (-) SetToBag({c})]_vars

\* two callbacks incremented attempts and one of their publishes failed: two
\* tasks for attempts 2
C24_Witness ==
    /\ inflight = EmptyBag
    /\ \E id \in DOMAIN store :
          /\ store[id].attempts = 2
          /\ KeyCount(topics[InputTopic], id) = 2
          /\ MissingTasks(id) = 1

-----------------------------------------------------------------------------
(* One mail from admission to its end: the LLM service answers every task on  *)
(* the input topic with one callback, calls are handled one at a time, and no *)
(* store or broker call fails.                                                *)

\* callbacks begun so far: every call but the admission
CallbacksBegun == calls - 1

Admit ==
    \E dto \in {d \in IncomingMessageDTO : ValidateIncoming(d) = NoErr} :
        /\ calls = 0
        /\ ProcessIncomingMessage(dto, TRUE)

\* a task not yet answered produces a callback for its id, valid or invalid
Deliver ==
    \E dto \in {d \in ValidateMessageDTO : d.ID \in Ids} :
        /\ KeyCount(topics[InputTopic], dto.ID) > CallbacksBegun
        /\ ValidateProcessedMessage(dto, TRUE)

StepNoFault ==
    \/ \E c \in Calls : ProcessCreateMail(c, FALSE)
    \/ \E c \in Calls : ProcessSendTask(c, FALSE)
    \/ \E c \in Calls : ValidateSaveLLMResult(c, FALSE)
    \/ \E c \in Calls : ValidateSendProcessed(c, FALSE)
    \/ \E c \in Calls : InvalidGetMail(c, FALSE)
    \/ \E c \in Calls : InvalidMarkAsFailed(c, FALSE)
    \/ \E c \in Calls, now \in Clock : InvalidSendFailed(c, now, FALSE)
    \/ \E c \in Calls : InvalidIncrementAttempts(c, FALSE)
    \/ \E c \in Calls : InvalidSendRetry(c, FALSE)

NextProgress ==
    \/ Admit
    \/ Deliver
    \/ StepNoFault

SpecProgress ==
    /\ Init
    /\ [][NextProgress]_vars
    /\ WF_vars(Deliver)
    /\ WF_vars(StepNoFault)

\* C25: with maxAttempts >= 1, every task answered by one callback, calls handled
\* one at a time and no store or broker failure, every admitted mail eventually
\* is processed or failed, and never more than maxAttempts callbacks are begun
\* for it.
C25_Progress ==
    (maxAttempts >= 1 /\ maxAttempts + 1 <= MaxCalls) =>
        /\ \A id \in Ids :
              (id \in DOMAIN store)
                  ~> (/\ id \in DOMAIN store
                      /\ store[id].status \in {"processed", "failed"}
                      /\ inflight = EmptyBag)
        /\ [](CallbacksBegun <= maxAttempts)

\* limit 3: the third invalid callback in a row dead-lettered the mail
C25_Witness ==
    /\ maxAttempts = 3 /\ CallbacksBegun = 3
    /\ inflight = EmptyBag
    /\ \E id \in DOMAIN store : store[id].status = "failed" /\ store[id].attempts = 2

\* C26: an admission whose id already has a record returns an error, publishes
\* no task and leaves the record as it was: status, attempts, content and result.
C26_DuplicateAdmission ==
    (/\ Done /\ resp.op = "process"
     /\ ValidateIncoming(resp.dto) = NoErr
     /\ resp.id \in DOMAIN pre.store)
    => /\ resp.err \in {Wrap("save mail", "duplicate key"), Wrap("save mail", DBError)}
       /\ topics = pre.topics
       /\ store = pre.store

\* a second admission of the id of a processed record, with another receipt
\* time, was refused
C26_Witness ==
    /\ Done /\ resp.op = "process"
    /\ resp.id \in DOMAIN pre.store
    /\ resp.err = "save mail: duplicate key"
    /\ store[resp.id].status = "processed"
    /\ store[resp.id].received_at # resp.dto.ReceivedAt
    /\ resp.dto.ReceivedAt # ZeroTime

\* C27: with maxAttempts <= 1, zero and negative limits included, the first
\* invalid callback for a freshly admitted record dead-letters it with attempts
\* still 0, and no retry task is ever published for any id; with maxAttempts = 2
\* the first invalid callback retries once and the second dead-letters.
C27_ThresholdBoundary ==
    \A id \in Ids :
        /\ (maxAttempts <= 1 /\ id \in DOMAIN store)
              => /\ store[id].attempts = 0
                 /\ KeyCount(topics[InputTopic], id) <= 1
        /\ (maxAttempts <= 1 /\ inflight = EmptyBag /\ run[id] = 1)
              => /\ store[id].status = "failed"
                 /\ KeyCount(topics[InputTopic], id) = 1
                 /\ KeyCount(topics[DeadLetterTopic], id) = 1
        /\ (maxAttempts = 2 /\ inflight = EmptyBag /\ run[id] = 1)
              => /\ store[id].status = "new"
                 /\ store[id].attempts = 1
                 /\ KeyCount(topics[InputTopic], id) = 2
                 /\ KeyCount(topics[DeadLetterTopic], id) = 0
        /\ (maxAttempts = 2 /\ inflight = EmptyBag /\ run[id] = 2)
              => /\ store[id].status = "failed"
                 /\ store[id].attempts = 1
                 /\ KeyCount(topics[InputTopic], id) = 2
                 /\ KeyCount(topics[DeadLetterTopic], id) = 1

\* a negative limit: the first invalid callback dead-lettered the fresh record
C27_Witness ==
    \E id \in Ids :
        /\ maxAttempts < 0
        /\ inflight = EmptyBag /\ run[id] = 1
        /\ store[id].status = "failed" /\ store[id].attempts = 0
        /\ KeyCount(topics[DeadLetterTopic], id) = 1

====
